---- MODULE Spec2Model ----
(***************************************************************************)
(* The span-lifecycle tracker of ReactOpenTelemetryHook: the _activeSpan   *)
(* slot, the spans the external tracer has been asked to start, the        *)
(* ambient context span, and the public operations resetSpan,              *)
(* getActiveSpan, RunTrace and startPageSpan.                              *)
(*                                                                         *)
(* A span handle is the index of the span in `spans` (the order in which   *)
(* tracer.startSpan created them); NoSpan stands for `undefined`.          *)
(***************************************************************************)
EXTENDS Integers, Sequences, FiniteSets, TLC

\* ------------------------------------------------------------------ bounds
MaxSpans == 3

\* ------------------------------------------------------- values and inputs
NoSpan == 0
ForeignSpan == -1

NoAttributes == [k \in {} |-> ""]
RouteAttributes == [k \in {"route.path"} |-> "/dashboard"]

\* the calls the application makes: runTrace({action: "checkout"}),
\* runTrace({action: "save", attributes}), startPageSpan("home", {}) and
\* startPageSpan("dashboard", {"route.path": "/dashboard"})
TraceInputs ==
    {[action |-> "checkout", attributes |-> NoAttributes],
     [action |-> "save", attributes |-> RouteAttributes]}
PageInputs ==
    {[pageName |-> "home", attributes |-> NoAttributes],
     [pageName |-> "dashboard", attributes |-> RouteAttributes]}

Merge(base, over) ==
    [k \in (DOMAIN base) \cup (DOMAIN over) |->
        IF k \in DOMAIN over THEN over[k] ELSE base[k]]

\* `page.${pageName}`
PageSpanName(pageName) ==
    CASE pageName = "home" -> "page.home"
      [] pageName = "dashboard" -> "page.dashboard"

PageAttributes(pageName) ==
    [k \in {"page.name", "page.type", "span.kind"} |->
        CASE k = "page.name" -> pageName
          [] k = "page.type" -> "navigation"
          [] k = "span.kind" -> "client"]

VARIABLES
    spans,        \* every span tracer.startSpan has created, in creation order
    _activeSpan,  \* the active slot: a handle or NoSpan
    ambient,      \* trace.getSpan(context.active()): ForeignSpan or NoSpan
    last          \* what the latest public call did, as its caller observes it

vars == <<spans, _activeSpan, ambient, last>>

\* the state of one mounted useCounter(options)
VARIABLES
    counterOptions, \* the options object the hook is called with on every render
    count,        \* the hook's state as of the latest render
    lastAct       \* the calls made since the render before the latest one

counterVars == <<counterOptions, count, lastAct>>

Handles == 1..Len(spans)

\* --------------------------------------------------------- external tracer
\* tracer.startSpan(name, options, context): the span's attributes are the
\* `attributes` member of the options; every other member of the options is
\* kept in `options`. With no context argument the tracer parents the span on
\* the ambient context's span.
TracerStartSpan(sp, amb, name, options, parentContext) ==
    Append(sp, [name          |-> name,
                attributes    |-> options.attributes,
                options       |-> options.others,
                parentContext |-> parentContext,
                parent        |-> IF parentContext # NoSpan THEN parentContext ELSE amb,
                trackerEnds   |-> 0])

\* variant: ending a span also ends the spans started under it
SpanEndWithChildren(sp, h) ==
    [k \in 1..Len(sp) |->
        IF k = h \/ sp[k].parentContext = h
           THEN [sp[k] EXCEPT !.trackerEnds = @ + 1]
           ELSE sp[k]]

\* variant: the held handle is dropped without end()
SpanEndSkipped(sp, h) ==
    sp

\* span.end() issued by the tracker on handle h
SpanEnd(sp, h) ==
    [sp EXCEPT ![h].trackerEnds = @ + 1]

\* ------------------------------------------------------------ the tracker
\* Each public method is an operator from the object's state and the call's
\* inputs to the state after the call and what the caller observes:
\*   spans, _activeSpan   the state after the call
\*   ret                  the returned handle (NoSpan: undefined or nothing)
\*   raised               "none", or the exception that reaches the caller
\*   diag                 the messages written to this._diag by the call
Result(sp, active, ret, raised, diag) ==
    [spans |-> sp, _activeSpan |-> active, ret |-> ret, raised |-> raised, diag |-> diag]

\* the options object `{ ...attributes }` of _startParentSpan and _startSpan
SpreadOptions(attributes) ==
    [attributes |-> NoAttributes, others |-> attributes]

\* parentSpan ? trace.setSpan(context.active(), parentSpan) : undefined
ParentContext(parentSpan) ==
    IF parentSpan # NoSpan THEN parentSpan ELSE NoSpan

\* variant: the parent context is left out of the tracer call
_startSpanUnparented(sp, amb, spanName, parentSpan, attributes) ==
    TracerStartSpan(sp, amb, spanName, SpreadOptions(attributes), NoSpan)

\* _startSpan: the spans after the call; the new handle is their length
_startSpan(sp, amb, spanName, parentSpan, attributes) ==
    TracerStartSpan(sp, amb, spanName, SpreadOptions(attributes), ParentContext(parentSpan))

\* _startParentSpan: starts the span as _startSpan does and assigns the new
\* handle to this._activeSpan
_startParentSpan(sp, amb, spanName, parentSpan, attributes) ==
    LET started == TracerStartSpan(sp, amb, spanName, SpreadOptions(attributes),
                                   ParentContext(parentSpan))
    IN  [spans |-> started, _activeSpan |-> Len(started), span |-> Len(started)]

\* this.setActiveSpan(pageSpan): neither the class nor InstrumentationBase
\* declares a member of this name, so the call throws a TypeError and the slot
\* keeps its content
setActiveSpan(active, span) ==
    [_activeSpan |-> active, raised |-> "TypeError"]

\* variant: the slot's span is passed as the page span's parent context
PageParentContextFromSlot(active) ==
    active

\* the third argument of tracer.startSpan in startPageSpan: none is passed
PageParentContext(active) ==
    NoSpan

\* the options object of startPageSpan
PageOptions(pageName, attributes) ==
    [attributes |-> Merge(PageAttributes(pageName), attributes), others |-> NoAttributes]

\* variants: the operands of || swapped; the fallback dropped; the slot ignored
ResolveParentAmbientFirst(active, amb) ==
    IF amb # NoSpan THEN amb ELSE active

ResolveParentSlotOnly(active, amb) ==
    active

ResolveParentAmbientOnly(active, amb) ==
    amb

\* this._activeSpan || trace.getSpan(context.active())
ResolveParent(active, amb) ==
    IF active # NoSpan THEN active ELSE amb

\* variant: end() called outside any try
TryEndUncaught(endRaises) ==
    [raised |-> IF endRaises THEN "span error" ELSE "none", diag |-> <<>>]

\* try { this._activeSpan.end() } catch (error) { this._diag.warn(...) }
\* endRaises: whether end() throws
TryEnd(endRaises) ==
    [raised |-> "none",
     diag   |-> IF endRaises THEN <<"warn: Error ending span during reset:">> ELSE <<>>]

\* variant: the slot is cleared inside the try, after end()
resetSpanClearsInTry(sp, active, endRaises) ==
    IF active # NoSpan
       THEN Result(SpanEnd(sp, active), IF endRaises THEN active ELSE NoSpan,
                   NoSpan, "none", TryEnd(endRaises).diag)
       ELSE Result(sp, NoSpan, NoSpan, "none", <<>>)

\* variant: the slot is never cleared
resetSpanKeepsSlot(sp, active, endRaises) ==
    IF active # NoSpan
       THEN Result(SpanEnd(sp, active), active, NoSpan, "none", TryEnd(endRaises).diag)
       ELSE Result(sp, NoSpan, NoSpan, "none", <<>>)

\* resetSpan()
resetSpan(sp, active, endRaises) ==
    IF active # NoSpan
       THEN LET end == TryEnd(endRaises)
            IN  Result(SpanEnd(sp, active),
                       IF end.raised = "none" THEN NoSpan ELSE active,
                       NoSpan, end.raised, end.diag)
       ELSE Result(sp, NoSpan, NoSpan, "none", <<>>)

\* variant: a read that hands the handle over and empties the slot
getActiveSpanTakes(sp, active) ==
    Result(sp, NoSpan, active, "none", <<>>)

\* getActiveSpan()
getActiveSpan(sp, active) ==
    Result(sp, active, active, "none", <<>>)

\* variant: the statements after `return span` run when no parent is found,
\* in place of the synthesis of a root
RunTraceWithoutSynthesis(sp, active, amb, action, attributes, rootRaises, childRaises) ==
    LET parentSpan == ResolveParent(active, amb) IN
    IF parentSpan = NoSpan
       THEN Result(sp, active, NoSpan, "none",
                   <<"warn: No parent span available for RunTrace">>)
       ELSE IF childRaises
               THEN Result(sp, active, NoSpan, "tracer error", <<>>)
               ELSE LET started == _startSpan(sp, amb, action, parentSpan, attributes)
                    IN  Result(started, active, Len(started), "none", <<>>)

\* RunTrace({action, attributes}); rootRaises, childRaises: whether
\* tracer.startSpan throws in _startParentSpan and in _startSpan
RunTrace(sp, active, amb, action, attributes, rootRaises, childRaises) ==
    LET parentSpan == ResolveParent(active, amb) IN
    IF parentSpan = NoSpan
       THEN IF rootRaises
               THEN Result(sp, active, NoSpan, "tracer error", <<>>)
               ELSE LET root == _startParentSpan(sp, amb, action, parentSpan, attributes)
                    IN  IF childRaises
                           THEN Result(root.spans, root._activeSpan, NoSpan,
                                       "tracer error", <<>>)
                           ELSE LET started == _startSpan(root.spans, amb, action,
                                                          root.span, attributes)
                                IN  Result(started, root.span, Len(started), "none", <<>>)
       ELSE IF childRaises
               THEN Result(sp, active, NoSpan, "tracer error", <<>>)
               ELSE LET started == _startSpan(sp, amb, action, parentSpan, attributes)
                    IN  Result(started, active, Len(started), "none", <<>>)

\* startPageSpan(pageName, attributes); startRaises: whether tracer.startSpan throws
startPageSpan(sp, active, amb, pageName, attributes, startRaises) ==
    IF startRaises
       THEN Result(sp, active, NoSpan, "tracer error", <<>>)
       ELSE LET started  == TracerStartSpan(sp, amb, PageSpanName(pageName),
                                            PageOptions(pageName, attributes),
                                            PageParentContext(active))
                pageSpan == Len(started)
                set      == setActiveSpan(active, pageSpan)
            IN  IF set.raised # "none"
                   THEN Result(started, set._activeSpan, NoSpan, set.raised, <<>>)
                   ELSE Result(started, set._activeSpan, pageSpan, "none",
                               <<"debug: Started new page span for:">>)

\* ------------------------------------------------------- the state machine
\* what the caller of the latest public method saw: the method, the slot
\* before the call, whether the call before it was of the same method, and
\* the call's outcome
Observed(op, r) ==
    [op |-> op, before |-> _activeSpan, repeated |-> (last.op = op),
     ret |-> r.ret, raised |-> r.raised, diag |-> r.diag]

\* the fields after the field initialisers and the constructor
TrackerInit ==
    /\ spans = <<>>
    /\ _activeSpan = NoSpan
    /\ ambient = NoSpan
    /\ last = [op |-> "constructor", before |-> NoSpan, repeated |-> FALSE,
               ret |-> NoSpan, raised |-> "none", diag |-> <<>>]

\* no counter is mounted while the tracker is exercised
NoCounter ==
    /\ counterOptions = <<>>
    /\ count = 0
    /\ lastAct = <<>>

Init ==
    /\ TrackerInit
    /\ NoCounter

Apply(op, r) ==
    /\ Len(r.spans) <= MaxSpans
    /\ spans' = r.spans
    /\ _activeSpan' = r._activeSpan
    /\ last' = Observed(op, r)
    /\ UNCHANGED <<ambient, counterVars>>

CallResetSpan(endRaises) ==
    Apply("resetSpan", resetSpan(spans, _activeSpan, endRaises))

CallGetActiveSpan ==
    Apply("getActiveSpan", getActiveSpan(spans, _activeSpan))

CallRunTrace(action, attributes, rootRaises, childRaises) ==
    Apply("RunTrace", RunTrace(spans, _activeSpan, ambient, action, attributes,
                               rootRaises, childRaises))

CallStartPageSpan(pageName, attributes, startRaises) ==
    Apply("startPageSpan", startPageSpan(spans, _activeSpan, ambient, pageName,
                                         attributes, startRaises))

\* the application makes its next call inside context.with(...) around a span
\* of other code, or outside it
EnterContext(span) ==
    /\ span # ambient
    /\ ambient' = span
    /\ UNCHANGED <<spans, _activeSpan, last, counterVars>>

ResetStep == \E endRaises \in BOOLEAN : CallResetSpan(endRaises)
RunTraceStep ==
    \E call \in TraceInputs, rootRaises \in BOOLEAN, childRaises \in BOOLEAN :
        CallRunTrace(call.action, call.attributes, rootRaises, childRaises)
StartPageSpanStep ==
    \E call \in PageInputs, startRaises \in BOOLEAN :
        CallStartPageSpan(call.pageName, call.attributes, startRaises)
ContextStep == \E span \in {NoSpan, ForeignSpan} : EnterContext(span)

Next ==
    \/ ResetStep
    \/ CallGetActiveSpan
    \/ RunTraceStep
    \/ StartPageSpanStep
    \/ ContextStep

allVars == <<vars, counterVars>>

Spec == Init /\ [][Next]_allVars

\* the documented discipline of callers: reset first, then start the page
\* span, so that startPageSpan is only called while the slot is empty
DisciplinedStartPageSpanStep ==
    /\ _activeSpan = NoSpan
    /\ StartPageSpanStep

DisciplinedNext ==
    \/ ResetStep
    \/ CallGetActiveSpan
    \/ RunTraceStep
    \/ DisciplinedStartPageSpanStep
    \/ ContextStep

DisciplinedSpec == Init /\ [][DisciplinedNext]_allVars

\* --------------------------------------------------------- trace helpers
\* The exported helpers of ./instrumentation/traceHelpers act on the one
\* initialized ReactOpenTelemetryHook instance: each performs resetSpan's
\* end-and-clear, and the ones with arguments add them to the diagnostics.
EndpointInputs == {"/api/users", "/api/orders"}
RoutePageInputs == {"home", "dashboard"}

resetAllTraces(sp, active, endRaises) ==
    resetSpan(sp, active, endRaises)

resetForApiCall(sp, active, endpoint, endRaises) ==
    LET r == resetSpan(sp, active, endRaises)
    IN  [r EXCEPT !.diag = @ \o <<"debug: reset for API call", endpoint>>]

resetForRouteChange(sp, active, fromPage, toPage, endRaises) ==
    LET r == resetSpan(sp, active, endRaises)
    IN  [r EXCEPT !.diag = @ \o <<"debug: reset for route change", fromPage, toPage>>]

CallResetAllTraces(endRaises) ==
    Apply("resetAllTraces", resetAllTraces(spans, _activeSpan, endRaises))

CallResetForApiCall(endpoint, endRaises) ==
    Apply("resetForApiCall", resetForApiCall(spans, _activeSpan, endpoint, endRaises))

CallResetForRouteChange(fromPage, toPage, endRaises) ==
    Apply("resetForRouteChange",
          resetForRouteChange(spans, _activeSpan, fromPage, toPage, endRaises))

ResetAllTracesStep == \E endRaises \in BOOLEAN : CallResetAllTraces(endRaises)
ResetForApiCallStep ==
    \E endpoint \in EndpointInputs, endRaises \in BOOLEAN :
        CallResetForApiCall(endpoint, endRaises)
ResetForRouteChangeStep ==
    \E fromPage \in RoutePageInputs, toPage \in RoutePageInputs, endRaises \in BOOLEAN :
        CallResetForRouteChange(fromPage, toPage, endRaises)

\* the application resets through the helpers and traces through the instance
HelperNext ==
    \/ ResetStep
    \/ RunTraceStep
    \/ ContextStep
    \/ ResetAllTracesStep
    \/ ResetForApiCallStep
    \/ ResetForRouteChangeStep

HelperSpec == Init /\ [][HelperNext]_allVars

\* ------------------------------------------------------------- useCounter
\* bounds: the largest |count| followed, and the most calls made between two
\* renders
CountLimit == 15
MaxBatch == 2

\* an option left out of the options object is undefined
Has(o, field) == field \in DOMAIN o

NoOptions == [field \in {} |-> 0]

\* the options objects the hook is mounted with
OptionInputs ==
    {NoOptions,
     [initialValue |-> 5],
     [initialValue |-> 5, step |-> 2],
     [initialValue |-> 5, min |-> 0, max |-> 10, step |-> 3],
     [min |-> 0, max |-> 10],
     [initialValue |-> 5, min |-> 0, max |-> 10],
     [initialValue |-> 15, min |-> 0, max |-> 10],
     [initialValue |-> 5, min |-> 0, max |-> 10, step |-> -3]}

\* the arguments setValue is called with
SetValueInputs == {-5, 2, 15}

\* const { initialValue = 0, step = 1 } = options
initialValue(o) == IF Has(o, "initialValue") THEN o.initialValue ELSE 0
step(o) == IF Has(o, "step") THEN o.step ELSE 1

\* variant: the max constraint is left out
setValueUpdaterNoMax(o, value, prevCount) ==
    IF Has(o, "min") /\ value < o.min THEN o.min ELSE value

\* the updater setValue(value) passes to setCount
setValueUpdater(o, value, prevCount) ==
    LET afterMin == IF Has(o, "min") /\ value < o.min THEN o.min ELSE value
    IN  IF Has(o, "max") /\ afterMin > o.max THEN o.max ELSE afterMin

\* the updater increment() passes to setCount
incrementUpdater(o, prevCount) ==
    LET newValue == prevCount + step(o)
    IN  IF Has(o, "max") /\ newValue > o.max THEN o.max ELSE newValue

\* the updater decrement() passes to setCount
decrementUpdater(o, prevCount) ==
    LET newValue == prevCount - step(o)
    IN  IF Has(o, "min") /\ newValue < o.min THEN o.min ELSE newValue

\* variant: reset to the default initial value, whatever was configured
resetValueDefault(o) == 0

\* reset(): setCount(initialValue)
resetValue(o) == initialValue(o)

\* variant: at the minimum only when below it
isAtMinStrict(o, c) == Has(o, "min") /\ c < o.min

\* the derived flags of a render
isAtMin(o, c) == Has(o, "min") /\ c <= o.min
isAtMax(o, c) == Has(o, "max") /\ c >= o.max

\* the calls of the returned functions: <<function, argument>>, the argument
\* read by setValue only
Increment == <<"increment", 0>>
Decrement == <<"decrement", 0>>
Reset == <<"reset", 0>>
SetValue(v) == <<"setValue", v>>
CounterCalls == {Increment, Decrement, Reset} \cup {SetValue(v) : v \in SetValueInputs}

\* one queued setCount applied to the state the queue has produced so far
ApplyUpdate(o, prevCount, call) ==
    CASE call[1] = "increment" -> incrementUpdater(o, prevCount)
      [] call[1] = "decrement" -> decrementUpdater(o, prevCount)
      [] call[1] = "setValue"  -> setValueUpdater(o, call[2], prevCount)
      [] call[1] = "reset"     -> resetValue(o)

\* variant: every update computed from the rendered count (count + step
\* captured by the callback), so the last queued one decides
ApplyUpdatesStale(o, c, calls) ==
    IF calls = <<>> THEN c
    ELSE ApplyUpdate(o, c, calls[Len(calls)])

\* React processes the queued setCount calls in order on the next render;
\* every functional updater receives the result of the one before it
RECURSIVE ApplyUpdates(_, _, _)
ApplyUpdates(o, c, calls) ==
    IF calls = <<>> THEN c
    ELSE ApplyUpdates(o, ApplyUpdate(o, c, Head(calls)), Tail(calls))

\* the sequences of at most n calls
RECURSIVE Batches(_)
Batches(n) ==
    IF n = 0 THEN {<<>>}
    ELSE Batches(n - 1) \cup
         {Append(b, call) : b \in {b \in Batches(n - 1) : Len(b) = n - 1},
                            call \in CounterCalls}

\* the calls a handler makes before its final one
EarlierCalls == Batches(MaxBatch - 1)

\* useState(initialValue) on mount
CounterInit ==
    /\ counterOptions \in OptionInputs
    /\ count = initialValue(counterOptions)
    /\ lastAct = <<>>
    /\ TrackerInit

\* an event handler or act() callback makes these calls, and React renders
Act(calls) ==
    /\ calls # <<>>
    /\ count' = ApplyUpdates(counterOptions, count, calls)
    /\ count' \in -CountLimit..CountLimit
    /\ lastAct' = calls
    /\ UNCHANGED <<counterOptions, vars>>

\* the handlers by their final call; the calls before it are any others
CallIncrement(before) == Act(Append(before, Increment))
CallDecrement(before) == Act(Append(before, Decrement))
CallSetValue(before, value) == Act(Append(before, SetValue(value)))
CallReset(before) == Act(Append(before, Reset))

IncrementStep == \E before \in EarlierCalls : CallIncrement(before)
DecrementStep == \E before \in EarlierCalls : CallDecrement(before)
SetValueStep ==
    \E before \in EarlierCalls, v \in SetValueInputs : CallSetValue(before, v)
ResetCounterStep == \E before \in EarlierCalls : CallReset(before)

CounterNext ==
    \/ IncrementStep
    \/ DecrementStep
    \/ SetValueStep
    \/ ResetCounterStep

CounterSpec == CounterInit /\ [][CounterNext]_allVars

\* ------------------------------------------------------------- properties
\* whether tracer.startSpan throws during a RunTrace call with these inputs
TracerRaisesInRunTrace(rootRaises, childRaises) ==
    IF ResolveParent(_activeSpan, ambient) = NoSpan
       THEN rootRaises \/ childRaises
       ELSE childRaises

\* C1: from either slot state, startPageSpan (the tracer starting the span)
\* starts exactly one span, installs it in the slot and returns it, so that
\* getActiveSpan() right after returns the handle startPageSpan returned.
C1_StartPageSpanInstallsAndReturns ==
    [][\A call \in PageInputs :
          CallStartPageSpan(call.pageName, call.attributes, FALSE) =>
             /\ Len(spans') = Len(spans) + 1
             /\ last'.raised = "none"
             /\ last'.ret = Len(spans')
             /\ _activeSpan' = last'.ret
             /\ getActiveSpan(spans', _activeSpan').ret = last'.ret]_vars

\* C2: resetSpan on an occupied slot calls end() exactly once on the held
\* handle, on no other handle, and empties the slot; on an empty slot it calls
\* neither the tracer nor any handle and the slot stays empty.
C2_ResetEndsHeldHandleOnce ==
    [][ResetStep =>
          /\ _activeSpan' = NoSpan
          /\ Len(spans') = Len(spans)
          /\ \A h \in Handles :
                /\ spans'[h].trackerEnds =
                      spans[h].trackerEnds + (IF h = _activeSpan THEN 1 ELSE 0)
                /\ [spans'[h] EXCEPT !.trackerEnds = 0] =
                      [spans[h] EXCEPT !.trackerEnds = 0]]_vars

C2_Witness ==
    /\ last.op = "resetSpan"
    /\ last.before # NoSpan
    /\ spans[last.before].trackerEnds = 1
    /\ _activeSpan = NoSpan

\* C3: resetSpan never raises to its caller, with the slot empty and with the
\* held handle's end() throwing; when end() throws, a warning is written and
\* the slot is empty on return.
C3_ResetNeverRaises ==
    [][\A endRaises \in BOOLEAN :
          CallResetSpan(endRaises) =>
             /\ last'.raised = "none"
             /\ _activeSpan' = NoSpan
             /\ (endRaises /\ _activeSpan # NoSpan) =>
                   last'.diag = <<"warn: Error ending span during reset:">>
             /\ (_activeSpan = NoSpan) => last'.diag = <<>>]_vars

C3_Witness ==
    /\ last.op = "resetSpan"
    /\ last.before # NoSpan
    /\ last.diag # <<>>
    /\ last.raised = "none"
    /\ _activeSpan = NoSpan

\* C4: a resetSpan that directly follows a resetSpan changes neither the slot
\* nor any span: it ends nothing, and the state is the one the first left.
C4_ResetIdempotent ==
    [][(last.op = "resetSpan" /\ ResetStep) =>
          /\ spans' = spans
          /\ _activeSpan' = _activeSpan
          /\ _activeSpan' = NoSpan
          /\ last'.raised = "none"]_vars

C4_Witness ==
    /\ last.op = "resetSpan"
    /\ last.repeated
    /\ last.before = NoSpan
    /\ \E h \in Handles : spans[h].trackerEnds = 1

\* C5: with the slot occupied, the span RunTrace creates and returns has the
\* slot's span as its parent, also when the ambient context holds another
\* span; the ambient span is not the parent.
C5_SlotSpanIsParent ==
    [][\A call \in TraceInputs, rootRaises \in BOOLEAN :
          (CallRunTrace(call.action, call.attributes, rootRaises, FALSE)
             /\ _activeSpan # NoSpan) =>
             /\ last'.ret = Len(spans')
             /\ Len(spans') = Len(spans) + 1
             /\ spans'[last'.ret].parentContext = _activeSpan
             /\ spans'[last'.ret].parent = _activeSpan
             /\ spans'[last'.ret].parent # ForeignSpan]_vars

C5_Witness ==
    /\ last.op = "RunTrace"
    /\ last.before # NoSpan
    /\ ambient = ForeignSpan
    /\ last.ret # NoSpan
    /\ spans[last.ret].parent = last.before

\* C6: with the slot empty and a span in the ambient context, RunTrace starts
\* exactly one span, its parent is the ambient span, and no root is
\* synthesized.
C6_AmbientFallback ==
    [][\A call \in TraceInputs, rootRaises \in BOOLEAN :
          (CallRunTrace(call.action, call.attributes, rootRaises, FALSE)
             /\ _activeSpan = NoSpan /\ ambient # NoSpan) =>
             /\ Len(spans') = Len(spans) + 1
             /\ last'.ret = Len(spans')
             /\ spans'[last'.ret].parent = ambient
             /\ spans'[last'.ret].name = call.action
             /\ _activeSpan' = NoSpan]_vars

C6_Witness ==
    /\ last.op = "RunTrace"
    /\ last.before = NoSpan
    /\ ambient = ForeignSpan
    /\ last.ret # NoSpan
    /\ spans[last.ret].parent = ForeignSpan
    /\ _activeSpan = NoSpan

\* C7: with the slot empty and no ambient span, RunTrace({action}) starts
\* exactly two spans named by the action: a root without parent and a child
\* of that root; it returns the child and leaves the root in the slot.
C7_AutoRootSynthesis ==
    [][\A call \in TraceInputs :
          (CallRunTrace(call.action, call.attributes, FALSE, FALSE)
             /\ _activeSpan = NoSpan /\ ambient = NoSpan) =>
             LET root  == Len(spans) + 1
                 child == Len(spans) + 2
             IN  /\ Len(spans') = child
                 /\ spans'[root].name = call.action
                 /\ spans'[child].name = call.action
                 /\ spans'[root].parent = NoSpan
                 /\ spans'[root].parentContext = NoSpan
                 /\ spans'[child].parent = root
                 /\ last'.ret = child
                 /\ _activeSpan' = root]_vars

C7_Witness ==
    /\ last.op = "RunTrace"
    /\ last.before = NoSpan
    /\ ambient = NoSpan
    /\ last.ret = Len(spans)
    /\ _activeSpan = Len(spans) - 1
    /\ spans[last.ret].parent = _activeSpan

\* C8: RunTrace leaves the slot as it was unless it synthesizes a root: an
\* occupied slot holds the same span afterwards, not ended; an empty slot with
\* an ambient span stays empty; the slot changes, from empty to occupied, only
\* when neither a slot span nor an ambient span exists.
C8_RunTraceSlotFrame ==
    [][RunTraceStep =>
          /\ (_activeSpan # NoSpan) =>
                /\ _activeSpan' = _activeSpan
                /\ spans'[_activeSpan].trackerEnds = spans[_activeSpan].trackerEnds
          /\ (_activeSpan = NoSpan /\ ambient # NoSpan) => _activeSpan' = NoSpan
          /\ (_activeSpan' # _activeSpan) =>
                /\ _activeSpan = NoSpan
                /\ ambient = NoSpan
                /\ _activeSpan' # NoSpan]_vars

C8_Witness ==
    /\ last.op = "RunTrace"
    /\ last.before # NoSpan
    /\ _activeSpan = last.before
    /\ spans[_activeSpan].trackerEnds = 0
    /\ ambient = NoSpan
    /\ last.ret # NoSpan

\* C9: when tracer.startSpan throws during RunTrace or startPageSpan, the
\* call absorbs the failure, reports it on the diagnostic channel and returns
\* to the caller without raising.
C9_TracerFailureAbsorbed ==
    [][/\ \A call \in TraceInputs, rootRaises \in BOOLEAN, childRaises \in BOOLEAN :
             (CallRunTrace(call.action, call.attributes, rootRaises, childRaises)
                /\ TracerRaisesInRunTrace(rootRaises, childRaises)) =>
                (last'.raised = "none" /\ last'.diag # <<>>)
       /\ \A call \in PageInputs :
             CallStartPageSpan(call.pageName, call.attributes, TRUE) =>
                (last'.raised = "none" /\ last'.diag # <<>>)]_vars

\* C10: startPageSpan on an occupied slot (the tracer starting the span)
\* replaces the slot's content without ending the prior span: the prior span
\* receives no end() and is no longer what getActiveSpan() returns.
C10_StartPageSpanReplacesWithoutEnding ==
    [][\A call \in PageInputs :
          (CallStartPageSpan(call.pageName, call.attributes, FALSE)
             /\ _activeSpan # NoSpan) =>
             /\ spans'[_activeSpan].trackerEnds = spans[_activeSpan].trackerEnds
             /\ getActiveSpan(spans', _activeSpan').ret # _activeSpan
             /\ getActiveSpan(spans', _activeSpan').ret = Len(spans')]_vars

\* C11: after resets, startPageSpan(p, attrs) (the tracer starting the span)
\* leaves in the slot a span named page.<p> that carries page.name = p,
\* page.type = navigation, span.kind = client and every attribute of attrs.
C11_PageSpanInSlotAfterReset ==
    [][\A call \in PageInputs :
          (CallStartPageSpan(call.pageName, call.attributes, FALSE)
             /\ last.op = "resetSpan" /\ _activeSpan = NoSpan) =>
             /\ _activeSpan' \in 1..Len(spans')
             /\ spans'[_activeSpan'].name = PageSpanName(call.pageName)
             /\ LET attrs == spans'[_activeSpan'].attributes
                IN  /\ {"page.name", "page.type", "span.kind"} \subseteq DOMAIN attrs
                    /\ attrs["page.name"] = call.pageName
                    /\ attrs["page.type"] = "navigation"
                    /\ attrs["span.kind"] = "client"
                    /\ \A k \in DOMAIN call.attributes :
                          k \in DOMAIN attrs /\ attrs[k] = call.attributes[k]]_vars

\* C12: startPageSpan never forces a parent: in every state, the slot occupied
\* or not, the page span is started without a parent context from the tracker,
\* so its parent is whatever the ambient context holds and not the slot's span.
C12_PageSpanHasNoForcedParent ==
    [][\A call \in PageInputs :
          CallStartPageSpan(call.pageName, call.attributes, FALSE) =>
             LET pageSpan == Len(spans')
             IN  /\ pageSpan = Len(spans) + 1
                 /\ spans'[pageSpan].name = PageSpanName(call.pageName)
                 /\ spans'[pageSpan].parentContext = NoSpan
                 /\ spans'[pageSpan].parent = ambient]_vars

C12_Witness ==
    /\ last.op = "startPageSpan"
    /\ last.raised # "tracer error"
    /\ last.before # NoSpan
    /\ Len(spans) >= 1
    /\ spans[Len(spans)].name = "page.dashboard"
    /\ spans[Len(spans)].parentContext = NoSpan

\* C13: the attributes passed to RunTrace are the attributes of the spans it
\* creates: the returned child and, when one is synthesized, the root are
\* started with the caller's mapping as their attributes.
C13_RunTraceAttributesOnSpans ==
    [][\A call \in TraceInputs :
          CallRunTrace(call.action, call.attributes, FALSE, FALSE) =>
             \A h \in (Len(spans) + 1)..Len(spans') :
                spans'[h].attributes = call.attributes]_vars

\* C14: the slot never holds a handle the tracker has ended, and no span is
\* started by RunTrace under a parent the tracker has ended: after a reset a
\* RunTrace with no ambient span parents its span on a new root.
C14_NoRetiredHandleReused ==
    [][/\ (_activeSpan' # NoSpan) => spans'[_activeSpan'].trackerEnds = 0
       /\ \A h \in (Len(spans) + 1)..Len(spans') :
             LET p == spans'[h].parentContext
             IN  (p \in 1..Len(spans')) => (spans'[p].trackerEnds = 0 /\ h # p)
       /\ (RunTraceStep /\ _activeSpan = NoSpan /\ ambient = NoSpan
              /\ last'.ret # NoSpan) =>
             /\ _activeSpan' > Len(spans)
             /\ spans'[last'.ret].parentContext = _activeSpan']_vars

C14_Witness ==
    /\ last.op = "RunTrace"
    /\ last.before = NoSpan
    /\ ambient = NoSpan
    /\ last.ret # NoSpan
    /\ \E h \in Handles : spans[h].trackerEnds = 1
    /\ _activeSpan # NoSpan
    /\ spans[_activeSpan].trackerEnds = 0
    /\ spans[last.ret].parent = _activeSpan

\* C15: the slot is empty at construction and holds at most one handle; that
\* handle is the one most recently installed by startPageSpan or by RunTrace's
\* root synthesis since the last reset.
C15_SlotHoldsLatestInstalled ==
       [][/\ (last.op = "constructor") => _activeSpan = NoSpan
          /\ _activeSpan' \in {NoSpan} \cup (1..Len(spans'))
          /\ (\E call \in PageInputs :
                 CallStartPageSpan(call.pageName, call.attributes, FALSE)) =>
                _activeSpan' = Len(spans')
          /\ (\E call \in TraceInputs, childRaises \in BOOLEAN :
                 CallRunTrace(call.action, call.attributes, FALSE, childRaises)
                    /\ _activeSpan = NoSpan /\ ambient = NoSpan) =>
                _activeSpan' = Len(spans) + 1
          /\ ResetStep => _activeSpan' = NoSpan
          /\ ~(StartPageSpanStep \/ ResetStep
                 \/ (RunTraceStep /\ _activeSpan = NoSpan /\ ambient = NoSpan)) =>
                _activeSpan' = _activeSpan]_vars

\* C17: getActiveSpan() is a pure read: it returns the slot's content or
\* empty, and changes nothing: the slot and the spans are as before, nothing
\* is started, ended or logged.
C17_GetActiveSpanPureRead ==
    [][CallGetActiveSpan =>
          /\ last'.ret = _activeSpan
          /\ last'.raised = "none"
          /\ last'.diag = <<>>
          /\ _activeSpan' = _activeSpan
          /\ spans' = spans]_vars

C17_Witness ==
    /\ last.op = "getActiveSpan"
    /\ last.ret # NoSpan
    /\ last.ret = last.before
    /\ _activeSpan = last.ret

C18_CountWithinBounds ==
    (Has(counterOptions, "min") /\ Has(counterOptions, "max")) =>
        (counterOptions.min <= count /\ count <= counterOptions.max)

\* C19: increment sets count to prev + step, or to max when max is configured
\* and prev + step exceeds it; decrement sets count to prev - step, or to min
\* when min is configured and prev - step is below it. Calls made in a row
\* work on the updated value (two increments of step 3 from 5 with max 10
\* give 10), and with no bound reached an increment followed by a decrement
\* restores count.
C19_IncrementDecrement ==
    [][LET o == counterOptions
           Inc(c) == IF Has(o, "max") /\ c + step(o) > o.max THEN o.max ELSE c + step(o)
           Dec(c) == IF Has(o, "min") /\ c - step(o) < o.min THEN o.min ELSE c - step(o)
       IN  /\ Act(<<Increment>>) => count' = Inc(count)
           /\ Act(<<Decrement>>) => count' = Dec(count)
           /\ Act(<<Increment, Increment>>) => count' = Inc(Inc(count))
           /\ Act(<<Decrement, Decrement>>) => count' = Dec(Dec(count))
           /\ (Act(<<Increment, Increment>>) /\ count = 5
                 /\ o = [initialValue |-> 5, min |-> 0, max |-> 10, step |-> 3]) =>
                 count' = 10
           /\ (Act(<<Increment, Decrement>>)
                 /\ ~(Has(o, "max") /\ count + step(o) > o.max)
                 /\ ~(Has(o, "min") /\ count < o.min)) =>
                 count' = count]_counterVars

C19_Witness ==
    /\ lastAct = <<Increment, Increment>>
    /\ counterOptions = [initialValue |-> 5, min |-> 0, max |-> 10, step |-> 3]
    /\ count = 10

\* C20: setValue(v) sets count to v clamped into the configured bounds,
\* whatever count was before: min when v < min, max when v > max, v otherwise.
C20_SetValueClamps ==
    [][LET o == counterOptions
           Clamped(v) == IF Has(o, "min") /\ v < o.min THEN o.min
                         ELSE IF Has(o, "max") /\ v > o.max THEN o.max
                         ELSE v
           calls == lastAct'
       IN  \A v \in SetValueInputs :
              (Act(calls) /\ calls[Len(calls)] = SetValue(v)) =>
                  count' = Clamped(v)]_counterVars

C20_Witness ==
    /\ Len(lastAct) = 2
    /\ lastAct[1] = Increment
    /\ lastAct[2] = SetValue(15)
    /\ Has(counterOptions, "max")
    /\ count = counterOptions.max

\* C21: a batch of calls that ends with reset leaves count equal to the
\* configured initialValue, 0 when none is configured, whatever increment,
\* decrement and setValue calls came before it.
C21_ResetRestoresInitialValue ==
    [][LET o == counterOptions
           calls == lastAct'
       IN  (Act(calls) /\ calls[Len(calls)] = Reset) =>
               count' = (IF Has(o, "initialValue") THEN o.initialValue ELSE 0)]_counterVars

C21_Witness ==
    /\ lastAct = <<Reset>>
    /\ counterOptions = [initialValue |-> 5, step |-> 2]
    /\ count = 5

\* C22: in every reachable state isAtMin is true exactly when min is
\* configured and count <= min, isAtMax is true exactly when max is configured
\* and count >= max, and with no bound configured both are false.
C22_AtMinAtMaxFlags ==
    LET o == counterOptions
    IN  /\ isAtMin(o, count) <=> ("min" \in DOMAIN o /\ count <= o.min)
        /\ isAtMax(o, count) <=> ("max" \in DOMAIN o /\ count >= o.max)
        /\ ({"min", "max"} \cap DOMAIN o = {}) =>
               (~isAtMin(o, count) /\ ~isAtMax(o, count))

C22_Witness ==
    /\ lastAct = <<SetValue(-5)>>
    /\ counterOptions = [initialValue |-> 5, min |-> 0, max |-> 10]
    /\ count = 0
    /\ isAtMin(counterOptions, count)
    /\ ~isAtMax(counterOptions, count)

\* C23: when tracer.startSpan succeeds, RunTrace returns a span handle for
\* every slot state, ambient state and action; it raises nothing, never writes
\* the 'No parent span available' warning and never returns empty.
C23_RunTraceNeverReturnsEmpty ==
    [][\A call \in TraceInputs :
          CallRunTrace(call.action, call.attributes, FALSE, FALSE) =>
             /\ last'.ret \in 1..Len(spans')
             /\ last'.ret = Len(spans')
             /\ last'.raised = "none"
             /\ \A i \in 1..Len(last'.diag) :
                   last'.diag[i] # "warn: No parent span available for RunTrace"]_vars

C23_Witness ==
    /\ last.op = "RunTrace"
    /\ last.before = NoSpan
    /\ ambient = NoSpan
    /\ Len(spans) = 2
    /\ last.ret = 2
    /\ last.raised = "none"
    /\ last.diag = <<>>

\* C24: when startPageSpan is only called while the slot is empty, every span
\* started for the slot, a page span of startPageSpan or a root synthesized by
\* RunTrace (the spans started without a parent context), has received end()
\* from the tracker exactly once when a reset has completed.
C24_NoLeakUnderDiscipline ==
    (last.op = "resetSpan") =>
        \A h \in Handles :
            (spans[h].parentContext = NoSpan) => spans[h].trackerEnds = 1

\* C25: every end() the tracker issues goes to the handle that is in the slot
\* at that moment, one end() per step; a span is started open; and the child
\* spans RunTrace returns (the spans started under a parent context) are never
\* ended by the tracker, whatever resets follow.
C25_TrackerEndsOnlySlotOccupant ==
    [][/\ \A h \in Handles :
             (spans'[h].trackerEnds # spans[h].trackerEnds) =>
                 /\ h = _activeSpan
                 /\ spans'[h].trackerEnds = spans[h].trackerEnds + 1
       /\ \A h \in (Len(spans) + 1)..Len(spans') : spans'[h].trackerEnds = 0
       /\ \A h \in 1..Len(spans') :
             (spans'[h].parentContext # NoSpan) => spans'[h].trackerEnds = 0
       /\ (RunTraceStep /\ last'.ret # NoSpan) =>
             spans'[last'.ret].parentContext # NoSpan]_vars

C25_Witness ==
    /\ last.op = "resetSpan"
    /\ last.repeated
    /\ _activeSpan = NoSpan
    /\ \E h \in Handles :
          /\ spans[h].parentContext \in Handles
          /\ spans[spans[h].parentContext].trackerEnds = 1
          /\ spans[h].trackerEnds = 0
====
